---------------------------- MODULE Spec2Model ----------------------------
(***************************************************************************)
(* Model of the interactive item cards of cephalon_seraph/commands/items.py *)
(* (the /search weapon|mod|misc|arcane commands, the dropdown / button      *)
(* callbacks and the views' on_timeout handlers).                           *)
(*                                                                          *)
(* A session is one card message sent by a command.  Every discord.ui.View  *)
(* object that was attached to that message is kept in the session's        *)
(* `views` list: the view sent with the card and every view a callback      *)
(* passed to interaction.response.edit_message(view=...).                   *)
(***************************************************************************)
EXTENDS Integers, Sequences, FiniteSets, TLC

VARIABLES sessions, lastOp, call, tasks

vars == <<sessions, lastOp, call, tasks>>

---------------------------------------------------------------------------
(* Bounds of the model *)

\* longest drop-location list of a record
MaxDrops == 60
\* views ever attached to one message (callbacks that build a view need room)
MaxViews == 3

(* Program constants *)

\* items_per_page, and the literal 25 of ResourceDropdownView.__init__
PageSize == 25

WEAPON_CATEGORY == {"Primary", "Secondary", "Melee"}

\* item_data['category'] of the records the provider serves
Categories == WEAPON_CATEGORY \cup {"Mods", "Arcanes", "Resources"}

SessionIds == {1}

Min(a, b) == IF a <= b THEN a ELSE b

RemoveAt(seq, i) == [j \in 1..(Len(seq) - 1) |-> IF j < i THEN seq[j] ELSE seq[j + 1]]

IndexOf(seq, x) == CHOOSE i \in 1..Len(seq) : seq[i] = x

---------------------------------------------------------------------------
(* Item records, as returned by the provider (response.json()).            *)
(*   category   item_data['category']                                      *)
(*   present    which of the fields the renderers read are in the record   *)
(*   nDrops     len(item_data.get('drops', []))                            *)
(*   attacks    names of item_data['attacks']                              *)
(*   components item_data['components']                                    *)

Fields == {"description", "wikiaUrl", "introduced", "productCategory", "levelStats"}

PresentSets == {Fields} \cup {Fields \ {f} : f \in Fields}

\* a droppable component whose description carries "Location:"
CompBlueprint == [name |-> "Blueprint", hasCount |-> FALSE, drops |-> "some", location |-> TRUE]
\* a component with an empty drops array and no "Location:" marker
CompBarrel == [name |-> "Barrel", hasCount |-> FALSE, drops |-> "empty", location |-> FALSE]
\* a resource-like component: a 'count' key, no drops key
CompOrokin == [name |-> "Orokin Cell", hasCount |-> TRUE, drops |-> "absent", location |-> FALSE]

\* a component with neither a 'count' key nor a 'drops' key
CompStock == [name |-> "Stock", hasCount |-> FALSE, drops |-> "absent", location |-> FALSE]

ComponentLists == {<<>>, <<CompBlueprint, CompBarrel>>, <<CompStock, CompOrokin>>}

DropCounts == {0, PageSize, PageSize + 1, 2 * PageSize, MaxDrops}

\* weapons: complete records with every component list, one with an Incarnon
\* form, and records that lack one field
WeaponRecords ==
    [category : {"Primary"}, present : {Fields}, nDrops : {0},
     attacks : {{}}, components : ComponentLists]
    \cup [category : {"Primary"}, present : {Fields}, nDrops : {0},
          attacks : {{"Incarnon Form"}}, components : {<<>>}]
    \cup [category : {"Primary"}, present : PresentSets, nDrops : {0},
          attacks : {{}}, components : {<<>>}]

ModRecords ==
    [category : {"Mods"}, present : PresentSets, nDrops : {0},
     attacks : {{}}, components : {<<>>}]

ArcaneRecords ==
    [category : {"Arcanes"}, present : PresentSets, nDrops : {0},
     attacks : {{}}, components : {<<>>}]

\* resources: every length of the drop list, every component list, and a
\* record without a level-stat table
ResourceRecords ==
    [category : {"Resources"}, present : {Fields}, nDrops : DropCounts,
     attacks : {{}}, components : {<<>>}]
    \cup [category : {"Resources"}, present : {Fields, Fields \ {"levelStats"}}, nDrops : {0},
          attacks : {{}}, components : ComponentLists]

Records == WeaponRecords \cup ModRecords \cup ArcaneRecords \cup ResourceRecords

NoRecord == [category |-> "", present |-> {}, nDrops |-> 0, attacks |-> {}, components |-> <<>>]

\* item_data.get('drops', []): the entries are told apart by their position
Drops(item) == [i \in 1..item.nDrops |-> i]

Has(item, f) == f \in item.present

---------------------------------------------------------------------------
(* The View Renderer: the create_*_page functions.  Each returns            *)
(* [raised, embed, fetched]: raised is "" or the name of the exception the  *)
(* function lets escape, embed is the page it returns otherwise, fetched    *)
(* is the outcome of every orders request the function made, in order.      *)

\* kind and page of the page shown; entries: the drop locations listed (their
\* positions in the record's list); lines: price lines; blocks: component blocks
NoEmbed == [kind |-> "", page |-> 0, entries |-> <<>>, lines |-> <<>>, blocks |-> <<>>]

Embed(kind, page) == [NoEmbed EXCEPT !.kind = kind, !.page = page]

Returned(embed) == [raised |-> "", embed |-> embed, fetched |-> <<>>]

Raised(exc) == [raised |-> exc, embed |-> NoEmbed, fetched |-> <<>>]

\* the function made the orders requests whose outcomes are prices
Fetching(rendered, prices) == [rendered EXCEPT !.fetched = prices]

\* Python's seq[start:end]: negative indices count from the end, both are clamped
PyIndex(len, k) == IF k < 0 THEN (IF len + k < 0 THEN 0 ELSE len + k) ELSE Min(k, len)

PySlice(seq, start, end) ==
    LET lo == PyIndex(Len(seq), start)
        hi == PyIndex(Len(seq), end)
    IN  IF lo < hi THEN SubSeq(seq, lo + 1, hi) ELSE <<>>

PriceOutcomes == {"200", "404", "500", "ClientError"}

\* fetch_component_price: the lines it returns for the status of the orders request
fetch_component_price(outcome) ==
    CASE outcome = "ClientError" -> [raised |-> "ClientError", lines |-> <<>>]
      [] outcome = "200" -> [raised |-> "", lines |-> <<"lowest prices">>]
      [] outcome = "404" -> [raised |-> "", lines |-> <<"No prices found">>]
      [] OTHER -> [raised |-> "", lines |-> <<"Failed to fetch prices">>]

create_basic_info_weapon_page(item) ==
    CASE ~Has(item, "description") -> Raised("KeyError")
      [] ~Has(item, "wikiaUrl") -> Raised("KeyError")
      [] ~Has(item, "productCategory") -> Raised("TypeError")
      [] ~Has(item, "introduced") -> Raised("KeyError")
      [] OTHER -> Returned(Embed("BasicInfo", 1))

create_weapon_attack_page(item) == Returned(Embed("DetailedAttacks", 1))

\* the block of one component: the conditional expression of lines 333-338
ComponentBlock(component, price) ==
    [name |-> component.name,
     lines |-> IF component.location THEN {"Count", "Drops At"}
               ELSE IF price # <<>> THEN {"Ducats", "Prices"}
               ELSE {},
     location |-> IF component.location THEN component.name ELSE "",
     prices |-> IF ~component.location /\ price # <<>> THEN price ELSE <<>>]

\* prices: one outcome of the orders request per component; asyncio.gather
\* starts every request and re-raises the first exception any of them raised
create_weapon_components_page(item, prices) ==
    LET fetched == [i \in 1..Len(item.components) |-> fetch_component_price(prices[i])]
    IN  Fetching(
            IF \E i \in 1..Len(fetched) : fetched[i].raised # ""
            THEN Raised("ClientError")
            ELSE Returned([Embed("Components", 1) EXCEPT !.blocks =
                     [i \in 1..Len(fetched) |->
                         ComponentBlock(item.components[i], fetched[i].lines)]]),
            prices)

create_component_drop_locations_page(component) ==
    Returned([Embed("ComponentDropLocations", 1) EXCEPT !.lines = <<component.name>>])

create_basic_info_mod_page(item, price) ==
    LET prices == fetch_component_price(price)
    IN  Fetching(
            CASE prices.raised # "" -> Raised(prices.raised)
              [] ~Has(item, "introduced") -> Raised("KeyError")
              [] ~Has(item, "levelStats") -> Raised("IndexError")
              [] OTHER -> Returned([Embed("BasicInfo", 1) EXCEPT !.lines = prices.lines]),
            <<price>>)

\* faulty variant: the rank page fetches the prices as the basic page does
create_rank_stats_mod_page_priced(item) ==
    Fetching(Returned(Embed("RankStats", 1)), <<"200">>)

create_rank_stats_mod_page(item) == Returned(Embed("RankStats", 1))

\* drop_location is assigned only when a component's description has "Location:";
\* a later component without the marker reads the value an earlier one left
ResourceComponentFields(components) ==
    [i \in 1..Len(components) |->
        [name |-> components[i].name,
         lines |-> {"Count", "Location"},
         prices |-> <<>>,
         location |-> LET marked == {j \in 1..i : components[j].location}
                      IN  components[CHOOSE j \in marked : \A k \in marked : k <= j].name]]

create_basic_info_resource_page(item) ==
    IF Len(item.components) > 0 /\ ~item.components[1].location
    THEN Raised("UnboundLocalError")
    ELSE Returned([Embed("BasicInfo", 1) EXCEPT !.blocks = ResourceComponentFields(item.components)])

\* faulty variant: the slice starts one entry late
DropLocationsSliceLate(item, page) ==
    LET items_per_page == PageSize
        start_index == (page - 1) * items_per_page + 1
        end_index == page * items_per_page
    IN  PySlice(Drops(item), start_index, end_index)

DropLocationsSlice(item, page) ==
    LET items_per_page == PageSize
        start_index == (page - 1) * items_per_page
        end_index == page * items_per_page
    IN  PySlice(Drops(item), start_index, end_index)

\* the embed half of create_drop_locations_resource_page; the view half is
\* ResourceDropdownView(item, page)
create_drop_locations_resource_page(item, page) ==
    Returned([Embed("ResourceDropLocations", page) EXCEPT !.entries = DropLocationsSlice(item, page)])

create_basic_info_arcane_page(item, price) ==
    LET prices == fetch_component_price(price)
    IN  Fetching(
            CASE prices.raised # "" -> Raised(prices.raised)
              [] ~Has(item, "levelStats") -> Raised("TypeError")
              [] OTHER -> Returned([Embed("BasicInfo", 1) EXCEPT !.lines = prices.lines]),
            <<price>>)

create_rank_stats_arcane_page(item) ==
    IF ~Has(item, "levelStats") THEN Raised("TypeError")
    ELSE Returned(Embed("RankStats", 1))

---------------------------------------------------------------------------
(* The discord.ui.View objects.                                             *)
(*   cls          the View subclass                                         *)
(*   current_page ResourceDropdownView.current_page (1 for the others)      *)
(*   options      labels of the view's dropdown                             *)
(*   buttons      labels of the view's buttons                              *)
(*   bound        the code has set view.message                             *)
(*   finished     the view timed out: it dispatches no interaction any more *)
(*   disabled     on_timeout has set item.disabled on every child           *)

View(cls, page, options, buttons) ==
    [cls |-> cls, current_page |-> page, options |-> options, buttons |-> buttons,
     bound |-> FALSE, finished |-> FALSE, disabled |-> FALSE]

WeaponDropdownOptions(item) ==
    {"Basic Info", "Attack Info", "Riven Info", "Components"}
        \cup (IF "Incarnon Form" \in item.attacks THEN {"Incarnon Form"} ELSE {})

WeaponDropdownView(item) == View("WeaponDropdownView", 1, WeaponDropdownOptions(item), {})

\* the buttons WeaponDropdown.callback adds for "Components"
ComponentButtons(item) ==
    {item.components[i].name : i \in {j \in 1..Len(item.components) :
        ~item.components[j].hasCount /\ item.components[j].drops # "empty"}}

ModView(item) == View("ModView", 1, {"Basic Info", "Rank Stats"}, {})

\* faulty variant: Next is still offered on a full last page
PaginateButtonsInclusive(item, current_page) ==
    IF item.nDrops > PageSize
    THEN (IF current_page > 1 THEN {"Previous"} ELSE {})
            \cup (IF current_page * PageSize <= item.nDrops THEN {"Next"} ELSE {})
    ELSE {}

PaginateButtons(item, current_page) ==
    IF item.nDrops > PageSize
    THEN (IF current_page > 1 THEN {"Previous"} ELSE {})
            \cup (IF current_page * PageSize < item.nDrops THEN {"Next"} ELSE {})
    ELSE {}

ResourceDropdownView(item, current_page) ==
    View("ResourceDropdownView", current_page, {"Basic Info", "Drop Locations"},
         PaginateButtons(item, current_page))

ArcaneView(item) == View("ArcaneView", 1, {"Basic Info", "Rank Stats", "Drop Locations"}, {})

---------------------------------------------------------------------------
(* Sessions: sessions[s] is what the command invocation s left: a card      *)
(* message with its views, or no card (views = <<>>).                       *)
(*   cmd     the command invoked ("none": not invoked yet)                  *)
(*   item    the item record the views and callbacks hold                   *)
(*   views   every view attached to the message so far, oldest first        *)
(*   timers  the unfinished views in the order their timeouts elapse: all   *)
(*           views of a session have the same timeout, a view's timeout     *)
(*           restarts when it is attached and when it dispatches an event   *)
(*   shown   the view whose components the message shows                    *)
(*   embed   the embed the message shows                                    *)
(*   fetched the outcomes of the orders requests made to render that embed  *)

NoSession ==
    [cmd |-> "none", item |-> NoRecord, views |-> <<>>, timers |-> <<>>,
     shown |-> 0, embed |-> NoEmbed, fetched |-> <<>>]

\* followup.send(embed=..., view=view); view.message = original_response()
SentCard(cmd, item, embed, view) ==
    [cmd |-> cmd, item |-> item, views |-> <<[view EXCEPT !.bound = TRUE]>>,
     timers |-> <<1>>, shown |-> 1, embed |-> embed, fetched |-> <<>>]

\* the view that dispatches an interaction restarts its timeout
RefreshTimeout(sess, v) ==
    [sess EXCEPT !.timers = Append(RemoveAt(@, IndexOf(@, v)), v)]

\* faulty variant: the record loses its level-stat table when a page is shown
EditEmbedPopping(sess, embed) ==
    [sess EXCEPT !.embed = embed, !.item.present = @ \ {"levelStats"}]

\* interaction.response.edit_message(embed=embed): the components stay
EditEmbed(sess, embed) == [sess EXCEPT !.embed = embed]

\* the embed now shown was rendered with the requests of rendered
Shows(sess, rendered) == [sess EXCEPT !.fetched = rendered.fetched]

\* interaction.response.edit_message(embed=embed, view=view): the view is attached
\* to the message, nothing binds view.message, earlier views are not stopped
EditEmbedAndView(sess, embed, view) ==
    [sess EXCEPT !.embed = embed,
                 !.views = Append(@, view),
                 !.timers = Append(@, Len(sess.views) + 1),
                 !.shown = Len(sess.views) + 1]

(* lastOp: what the last handler did.                                       *)
(*   out     the calls it made on the interaction / message, in order:      *)
(*           api, what was sent, the ephemeral flag, ok = the call returned *)
(*   raised  the exception that left the handler ("" if none)               *)
(*   prices  the outcome of every orders request the handler made           *)
(*   stale   the event was for a view the message no longer shows           *)

Call(api, what, ephemeral, ok) ==
    [api |-> api, what |-> what, ephemeral |-> ephemeral, ok |-> ok]

Op(op, sid, view, arg, status, out, raised, stale) ==
    [op |-> op, sid |-> sid, view |-> view, arg |-> arg, status |-> status,
     out |-> out, raised |-> raised, stale |-> stale, prices |-> <<>>]

\* the handler made the orders requests whose outcomes are prices
Priced(op, prices) == [op EXCEPT !.prices = prices]

(* call: one call of a helper function on its own: the function, its        *)
(* argument and, once it has returned, its result.  The handlers below do   *)
(* not use it.                                                              *)

NoCall == [fn |-> "", arg |-> <<>>, returned |-> FALSE, result |-> <<>>]

(* tasks: the callbacks in progress.  The library runs the callback of each *)
(* interaction in an asyncio task of its own; the task is in progress from  *)
(* the dispatch of the interaction until its callback returns or raises.   *)

Task(s, v, op, arg) == [sid |-> s, view |-> v, op |-> op, arg |-> arg, again |-> FALSE]

\* the task of a second interaction on the same component while the task of
\* the first is in progress
Again(t) == [t EXCEPT !.again = TRUE]

\* the tasks in progress once a callback of task t has ended: the first
\* interaction's, if it is still in progress
Ended(ts, t) == IF t \in ts THEN ts \ {t} ELSE ts \ {Again(t)}

Init ==
    /\ sessions = [s \in SessionIds |-> NoSession]
    /\ lastOp = Op("none", 0, 0, "", "", <<>>, "", FALSE)
    /\ call = NoCall
    /\ tasks = {}

---------------------------------------------------------------------------
(* The commands of the Items cog.  resp is what self.session.get gives:     *)
(* a response with a status, or an aiohttp.ClientError.  A ClientResponse   *)
(* is always truthy, so the `if not response` branch is never taken.        *)

Statuses == {"200", "404", "500", "ClientError"}

\* the records a response can carry: a record with status 200, none otherwise
Payloads(resp) == IF resp = "200" THEN Records ELSE {NoRecord}

\* the outcomes of the price request that matter to a command: it is made only
\* when the command gets to render a card
PriceCases(resp, item, category) ==
    IF resp = "200" /\ item.category \in category THEN PriceOutcomes ELSE {"200"}

Deferred == <<Call("response.defer", "thinking", FALSE, TRUE)>>

\* a followup.send that ends the command
Followup(what, ephemeral) ==
    [out |-> Append(Deferred, Call("followup.send", what, ephemeral, TRUE)),
     raised |-> "", card |-> (what = "card")]

\* faulty variant: the not-found notice is sent publicly
NotFoundNoticePublic == Followup("not_found", FALSE)

\* followup.send(f"... not found: {name}", ephemeral=True)
NotFoundNotice == Followup("not_found", TRUE)

\* interaction.response.send_message after the defer: the interaction has been
\* responded to, the call raises InteractionResponded and nothing is sent
SendMessageAfterDefer ==
    [out |-> Append(Deferred, Call("response.send_message", "failure", FALSE, FALSE)),
     raised |-> "InteractionResponded", card |-> FALSE]

\* an exception no except clause of the command catches
Escapes(exc) == [out |-> Deferred, raised |-> exc, card |-> FALSE]

\* the command ends without sending anything
Silent == [out |-> Deferred, raised |-> "", card |-> FALSE]

weapon_run(resp, rendered, item) ==
    CASE resp = "ClientError" -> SendMessageAfterDefer
      [] resp = "200" /\ item.category \notin WEAPON_CATEGORY -> Followup("wrong_family", TRUE)
      [] resp = "200" /\ rendered.raised # "" -> Escapes(rendered.raised)
      [] resp = "200" -> Followup("card", FALSE)
      [] resp = "404" -> NotFoundNotice
      [] OTHER -> SendMessageAfterDefer

mod_run(resp, rendered, item) ==
    CASE resp = "ClientError" -> SendMessageAfterDefer
      [] resp = "200" /\ item.category # "Mods" -> Followup("wrong_family", TRUE)
      [] resp = "200" /\ rendered.raised = "ClientError" -> SendMessageAfterDefer
      [] resp = "200" /\ rendered.raised # "" -> Escapes(rendered.raised)
      [] resp = "200" -> Followup("card", FALSE)
      [] resp = "404" -> NotFoundNotice
      [] OTHER -> SendMessageAfterDefer

\* `except Exception` catches what the renderer raises and then fails like the
\* other handlers; a status other than 200 and 404 matches no branch
miscellaneous_run(resp, rendered, item) ==
    CASE resp = "ClientError" -> SendMessageAfterDefer
      [] resp = "200" /\ rendered.raised # "" -> SendMessageAfterDefer
      [] resp = "200" -> Followup("card", FALSE)
      [] resp = "404" -> NotFoundNotice
      [] OTHER -> Silent

arcane_run(resp, rendered, item) ==
    CASE resp = "ClientError" -> SendMessageAfterDefer
      [] resp = "200" /\ rendered.raised = "ClientError" -> SendMessageAfterDefer
      [] resp = "200" /\ rendered.raised # "" -> Escapes(rendered.raised)
      [] resp = "200" -> Followup("card", FALSE)
      [] resp = "404" -> NotFoundNotice
      [] OTHER -> Silent

\* the command gets to its create_basic_info_*_page call: the item was found
\* and passed the command's category test
Renders(cmd, resp, item) ==
    /\ resp = "200"
    /\ cmd = "weapon" => item.category \in WEAPON_CATEGORY
    /\ cmd = "mod" => item.category = "Mods"

\* the effect of the command invocation s: a card with its view, or no card
Command(s, cmd, resp, item, res, rendered, view) ==
    /\ item \in Payloads(resp)
    /\ sessions[s].cmd = "none"
    /\ sessions' = [sessions EXCEPT ![s] =
            IF res.card THEN Shows(SentCard(cmd, item, rendered.embed, view), rendered)
            ELSE [NoSession EXCEPT !.cmd = cmd, !.item = item]]
    /\ lastOp' = Priced(Op(cmd, s, 0, "", resp, res.out, res.raised, FALSE),
                        IF Renders(cmd, resp, item) THEN rendered.fetched ELSE <<>>)
    /\ UNCHANGED <<call, tasks>>

weapon(s, resp, item) ==
    LET rendered == create_basic_info_weapon_page(item)
    IN  Command(s, "weapon", resp, item, weapon_run(resp, rendered, item), rendered,
                WeaponDropdownView(item))

mod(s, resp, item, price) ==
    LET rendered == create_basic_info_mod_page(item, price)
    IN  Command(s, "mod", resp, item, mod_run(resp, rendered, item), rendered, ModView(item))

miscellaneous(s, resp, item) ==
    LET rendered == create_basic_info_resource_page(item)
    IN  Command(s, "misc", resp, item, miscellaneous_run(resp, rendered, item), rendered,
                ResourceDropdownView(item, 1))

arcane(s, resp, item, price) ==
    LET rendered == create_basic_info_arcane_page(item, price)
    IN  Command(s, "arcane", resp, item, arcane_run(resp, rendered, item), rendered,
                ArcaneView(item))

---------------------------------------------------------------------------
(* The callbacks.  An interaction on a component reaches the callback of    *)
(* the view that owns it as long as that view has not timed out, whether or *)
(* not the message still shows that view.                                   *)

Dispatches(s, v, cls) ==
    /\ v \in 1..Len(sessions[s].views)
    /\ sessions[s].views[v].cls = cls
    /\ ~sessions[s].views[v].finished

\* await interaction.response.edit_message(embed=await create_..._page(...)[, view=view])
CallbackEdit(s, v, op, arg, rendered, withView, view) ==
    LET sess == RefreshTimeout(sessions[s], v)
    IN  /\ (withView /\ rendered.raised = "") => Len(sessions[s].views) < MaxViews
        /\ sessions' = [sessions EXCEPT ![s] =
                IF rendered.raised # "" THEN sess
                ELSE IF withView
                     THEN Shows(EditEmbedAndView(sess, rendered.embed, view), rendered)
                ELSE Shows(EditEmbed(sess, rendered.embed), rendered)]
        /\ lastOp' = Priced(Op(op, s, v, arg, "",
                IF rendered.raised # "" THEN <<>>
                ELSE <<Call("response.edit_message", rendered.embed.kind, FALSE, TRUE)>>,
                rendered.raised, v # sessions[s].shown), rendered.fetched)
        /\ tasks' = Ended(tasks, Task(s, v, op, arg))
        /\ UNCHANGED call

\* faulty variant: the timeout restarts on the view at the same place of every
\* message
CallbackSendAll(s, v, op, arg) ==
    /\ sessions' = [t \in DOMAIN sessions |->
            IF \E i \in 1..Len(sessions[t].timers) : sessions[t].timers[i] = v
            THEN RefreshTimeout(sessions[t], v) ELSE sessions[t]]
    /\ lastOp' = Op(op, s, v, arg, "",
            <<Call("response.send_message", "placeholder", TRUE, TRUE)>>, "",
            v # sessions[s].shown)
    /\ tasks' = Ended(tasks, Task(s, v, op, arg))
    /\ UNCHANGED call

\* await interaction.response.send_message(..., ephemeral=True): the card stays
CallbackSend(s, v, op, arg) ==
    /\ sessions' = [sessions EXCEPT ![s] = RefreshTimeout(sessions[s], v)]
    /\ lastOp' = Op(op, s, v, arg, "",
            <<Call("response.send_message", "placeholder", TRUE, TRUE)>>, "",
            v # sessions[s].shown)
    /\ tasks' = Ended(tasks, Task(s, v, op, arg))
    /\ UNCHANGED call

\* the outcomes of the orders requests of a Components page: at most one of
\* them is not a 200
PriceInputs(item) ==
    {prices \in [1..Len(item.components) -> PriceOutcomes] :
        Cardinality({i \in 1..Len(item.components) : prices[i] # "200"}) <= 1}

NoPrices(item) == [i \in 1..Len(item.components) |-> "200"]

ModDropdown_callback(s, v, value, price) ==
    LET item == sessions[s].item
    IN  /\ Dispatches(s, v, "ModView")
        /\ value \in sessions[s].views[v].options
        /\ CallbackEdit(s, v, "ModDropdown.callback", value,
                IF value = "Basic Info" THEN create_basic_info_mod_page(item, price)
                ELSE create_rank_stats_mod_page(item),
                FALSE, ModView(item))

WeaponDropdown_callback(s, v, value, prices) ==
    LET item == sessions[s].item
        op == "WeaponDropdown.callback"
    IN  /\ Dispatches(s, v, "WeaponDropdownView")
        /\ value \in sessions[s].views[v].options
        /\ CASE value = "Basic Info" ->
                    CallbackEdit(s, v, op, value, create_basic_info_weapon_page(item),
                                 TRUE, WeaponDropdownView(item))
             [] value = "Attack Info" ->
                    CallbackEdit(s, v, op, value, create_weapon_attack_page(item),
                                 TRUE, WeaponDropdownView(item))
             [] value = "Components" ->
                    CallbackEdit(s, v, op, value, create_weapon_components_page(item, prices),
                                 TRUE, [WeaponDropdownView(item) EXCEPT
                                           !.buttons = ComponentButtons(item)])
             [] OTHER -> CallbackSend(s, v, op, value)

WeaponComponentButton_callback(s, v, label) ==
    LET item == sessions[s].item
        component == item.components[CHOOSE i \in 1..Len(item.components) :
                                        item.components[i].name = label]
    IN  /\ Dispatches(s, v, "WeaponDropdownView")
        /\ label \in sessions[s].views[v].buttons
        /\ CallbackEdit(s, v, "WeaponComponentButton.callback", label,
                create_component_drop_locations_page(component), FALSE,
                WeaponDropdownView(item))

\* faulty variant: "Drop Locations" reopens the page the view is on
SelectedPageKept(current_page) == current_page

\* the page "Drop Locations" opens: the literal 1 passed to
\* create_drop_locations_resource_page, whatever page the view is on
SelectedPage(current_page) == 1

ResourceDropdown_callback(s, v, value) ==
    LET item == sessions[s].item
        op == "ResourceDropdown.callback"
        page == SelectedPage(sessions[s].views[v].current_page)
    IN  /\ Dispatches(s, v, "ResourceDropdownView")
        /\ value \in sessions[s].views[v].options
        /\ IF value = "Basic Info"
           THEN CallbackEdit(s, v, op, value, create_basic_info_resource_page(item),
                             FALSE, ResourceDropdownView(item, 1))
           ELSE CallbackEdit(s, v, op, value, create_drop_locations_resource_page(item, page),
                             TRUE, ResourceDropdownView(item, page))

\* faulty variant: the button reads the page of the view the message shows
ButtonPageShown(sess, v) == sess.views[sess.shown].current_page

\* self.current_page: the button was built with the current_page of its view
ButtonPage(sess, v) == sess.views[v].current_page

ResourcePaginateButton_callback(s, v, action) ==
    LET item == sessions[s].item
        current_page == ButtonPage(sessions[s], v)
        page == IF action = "Next" THEN current_page + 1 ELSE current_page - 1
    IN  /\ Dispatches(s, v, "ResourceDropdownView")
        /\ action \in sessions[s].views[v].buttons
        /\ CallbackEdit(s, v, "ResourcePaginateButton.callback", action,
                create_drop_locations_resource_page(item, page), TRUE,
                ResourceDropdownView(item, page))

ArcaneDropdown_callback(s, v, value, price) ==
    LET item == sessions[s].item
        op == "ArcaneDropdown.callback"
    IN  /\ Dispatches(s, v, "ArcaneView")
        /\ value \in sessions[s].views[v].options
        /\ CASE value = "Basic Info" ->
                    CallbackEdit(s, v, op, value, create_basic_info_arcane_page(item, price),
                                 FALSE, ArcaneView(item))
             [] value = "Rank Stats" ->
                    CallbackEdit(s, v, op, value, create_rank_stats_arcane_page(item),
                                 FALSE, ArcaneView(item))
             [] OTHER -> CallbackSend(s, v, op, value)

\* an interaction on a component of a view that has timed out: the view is no
\* longer listening, no callback runs and the interaction gets no response
InteractionOnFinishedView(s, v) ==
    /\ v \in 1..Len(sessions[s].views)
    /\ sessions[s].views[v].finished
    /\ UNCHANGED <<sessions, call, tasks>>
    /\ lastOp' = Op("ignored", s, v, "", "", <<>>, "", v # sessions[s].shown)

---------------------------------------------------------------------------
(* on_timeout, the same in the four View subclasses: the view whose timeout *)
(* elapses first disables its children and edits self.message, an attribute *)
(* only the commands set.                                                   *)

on_timeout(s, cls) ==
    /\ sessions[s].timers # <<>>
    /\ LET v == Head(sessions[s].timers)
           view == sessions[s].views[v]
       IN  /\ view.cls = cls
           /\ sessions' = [sessions EXCEPT ![s] =
                   [@ EXCEPT !.views[v] = [view EXCEPT !.finished = TRUE, !.disabled = TRUE],
                             !.timers = Tail(@),
                             !.shown = IF view.bound THEN v ELSE @]]
           /\ lastOp' = Op("on_timeout", s, v, cls, "",
                   IF view.bound THEN <<Call("message.edit", "controls", FALSE, TRUE)>>
                   ELSE <<>>,
                   IF view.bound THEN "" ELSE "AttributeError", v # sessions[s].shown)
           /\ UNCHANGED <<call, tasks>>

ModView_on_timeout(s) == on_timeout(s, "ModView")

WeaponDropdownView_on_timeout(s) == on_timeout(s, "WeaponDropdownView")

ResourceDropdownView_on_timeout(s) == on_timeout(s, "ResourceDropdownView")

ArcaneView_on_timeout(s) == on_timeout(s, "ArcaneView")

---------------------------------------------------------------------------

Labels ==
    {"Basic Info", "Attack Info", "Riven Info", "Components", "Incarnon Form",
     "Rank Stats", "Drop Locations"}

ButtonLabels == {CompBlueprint.name, CompBarrel.name, CompStock.name, CompOrokin.name}

Next ==
    \E s \in SessionIds :
        \/ \E resp \in Statuses : \E item \in Payloads(resp) : weapon(s, resp, item)
        \/ \E resp \in Statuses : \E item \in Payloads(resp) :
                \E price \in PriceCases(resp, item, {"Mods"}) : mod(s, resp, item, price)
        \/ \E resp \in Statuses : \E item \in Payloads(resp) : miscellaneous(s, resp, item)
        \/ \E resp \in Statuses : \E item \in Payloads(resp) :
                \E price \in PriceCases(resp, item, Categories) : arcane(s, resp, item, price)
        \/ \E v \in 1..MaxViews, value \in Labels :
                \E price \in (IF value = "Basic Info" THEN PriceOutcomes ELSE {"200"}) :
                    ModDropdown_callback(s, v, value, price)
        \/ \E v \in 1..MaxViews, value \in Labels :
                \E prices \in (IF value = "Components" THEN PriceInputs(sessions[s].item)
                                ELSE {NoPrices(sessions[s].item)}) :
                    WeaponDropdown_callback(s, v, value, prices)
        \/ \E v \in 1..MaxViews, label \in ButtonLabels :
                WeaponComponentButton_callback(s, v, label)
        \/ \E v \in 1..MaxViews, value \in Labels : ResourceDropdown_callback(s, v, value)
        \/ \E v \in 1..MaxViews, action \in {"Next", "Previous"} :
                ResourcePaginateButton_callback(s, v, action)
        \/ \E v \in 1..MaxViews, value \in Labels :
                \E price \in (IF value = "Basic Info" THEN PriceOutcomes ELSE {"200"}) :
                    ArcaneDropdown_callback(s, v, value, price)
        \/ \E v \in 1..MaxViews : InteractionOnFinishedView(s, v)
        \/ ModView_on_timeout(s)
        \/ WeaponDropdownView_on_timeout(s)
        \/ ResourceDropdownView_on_timeout(s)
        \/ ArcaneView_on_timeout(s)

Spec == Init /\ [][Next]_vars

---------------------------------------------------------------------------
(* The callbacks as asyncio tasks.  In Spec an interaction is dispatched    *)
(* and its callback runs to its end in one step.  Here the two are apart:   *)
(* dispatch starts the task, which restarts the timeout of the view and     *)
(* then awaits its requests and the edit of the message; the callback       *)
(* action is the rest of the task.  Any number of other events can be       *)
(* dispatched in between: no callback takes a lock or looks at the tasks.   *)
(* A callback is taken to end before the timeout of its view elapses.       *)

\* callbacks in progress at once
MaxTasks == 2

\* the records served while callbacks overlap: one of each family
AsyncRecords ==
    {[category |-> "Primary", present |-> Fields, nDrops |-> 0, attacks |-> {},
      components |-> <<CompBlueprint, CompBarrel>>],
     [category |-> "Mods", present |-> Fields, nDrops |-> 0, attacks |-> {},
      components |-> <<>>],
     [category |-> "Arcanes", present |-> Fields, nDrops |-> 0, attacks |-> {},
      components |-> <<>>],
     [category |-> "Resources", present |-> Fields, nDrops |-> PageSize + 1, attacks |-> {},
      components |-> <<>>]}

\* resources without drop locations and with the longest list of them
PagedRecords ==
    {r \in ResourceRecords : r.components = <<>> /\ r.nDrops \in {0, MaxDrops}}

AsyncPayloads(resp) == Payloads(resp) \cap (AsyncRecords \cup PagedRecords \cup {NoRecord})

\* the callback the component arg of view v belongs to
DropdownOf(cls) ==
    CASE cls = "ModView" -> "ModDropdown.callback"
      [] cls = "WeaponDropdownView" -> "WeaponDropdown.callback"
      [] cls = "ResourceDropdownView" -> "ResourceDropdown.callback"
      [] OTHER -> "ArcaneDropdown.callback"

ButtonOf(cls) ==
    IF cls = "WeaponDropdownView" THEN "WeaponComponentButton.callback"
    ELSE "ResourcePaginateButton.callback"

TasksOf(s) == {t \in tasks : t.sid = s}

\* the interaction is dispatched: its task starts
dispatch(s, v, arg) ==
    /\ v \in 1..Len(sessions[s].views)
    /\ ~sessions[s].views[v].finished
    /\ Cardinality(tasks) < MaxTasks
    /\ Len(sessions[s].views) + Cardinality(TasksOf(s)) < MaxViews
    /\ LET view == sessions[s].views[v]
           op == IF arg \in view.options THEN DropdownOf(view.cls) ELSE ButtonOf(view.cls)
       IN  /\ arg \in view.options \cup view.buttons
           /\ {Task(s, v, op, arg), Again(Task(s, v, op, arg))} \cap tasks
                    # {Task(s, v, op, arg), Again(Task(s, v, op, arg))}
           /\ tasks' = tasks \cup {IF Task(s, v, op, arg) \in tasks
                                    THEN Again(Task(s, v, op, arg))
                                    ELSE Task(s, v, op, arg)}
    /\ sessions' = [sessions EXCEPT ![s] = RefreshTimeout(sessions[s], v)]
    /\ UNCHANGED <<lastOp, call>>

\* no callback of the view whose timeout elapses next is in progress
Idle(s) == \A t \in TasksOf(s) : t.view # Head(sessions[s].timers)

\* the rest of a task: its callback, from the first await to its end
ModDropdown_task ==
    \E t \in tasks :
        /\ t.op = "ModDropdown.callback"
        /\ \E price \in (IF t.arg = "Basic Info" THEN PriceOutcomes ELSE {"200"}) :
               ModDropdown_callback(t.sid, t.view, t.arg, price)

WeaponDropdown_task ==
    \E t \in tasks :
        /\ t.op = "WeaponDropdown.callback"
        /\ \E prices \in (IF t.arg = "Components" THEN PriceInputs(sessions[t.sid].item)
                            ELSE {NoPrices(sessions[t.sid].item)}) :
               WeaponDropdown_callback(t.sid, t.view, t.arg, prices)

WeaponComponentButton_task ==
    \E t \in tasks :
        /\ t.op = "WeaponComponentButton.callback"
        /\ WeaponComponentButton_callback(t.sid, t.view, t.arg)

ResourceDropdown_task ==
    \E t \in tasks :
        /\ t.op = "ResourceDropdown.callback"
        /\ ResourceDropdown_callback(t.sid, t.view, t.arg)

ResourcePaginateButton_task ==
    \E t \in tasks :
        /\ t.op = "ResourcePaginateButton.callback"
        /\ ResourcePaginateButton_callback(t.sid, t.view, t.arg)

ArcaneDropdown_task ==
    \E t \in tasks :
        /\ t.op = "ArcaneDropdown.callback"
        /\ \E price \in (IF t.arg = "Basic Info" THEN PriceOutcomes ELSE {"200"}) :
               ArcaneDropdown_callback(t.sid, t.view, t.arg, price)

NextAsync ==
    \/ \E s \in SessionIds :
        \/ \E resp \in Statuses : \E item \in AsyncPayloads(resp) : weapon(s, resp, item)
        \/ \E resp \in Statuses : \E item \in AsyncPayloads(resp) :
                \E price \in PriceCases(resp, item, {"Mods"}) : mod(s, resp, item, price)
        \/ \E resp \in Statuses : \E item \in AsyncPayloads(resp) :
                miscellaneous(s, resp, item)
        \/ \E resp \in Statuses : \E item \in AsyncPayloads(resp) :
                \E price \in PriceCases(resp, item, Categories) : arcane(s, resp, item, price)
        \/ \E v \in 1..MaxViews, arg \in Labels \cup ButtonLabels \cup {"Next", "Previous"} :
                dispatch(s, v, arg)
        \/ \E v \in 1..MaxViews : InteractionOnFinishedView(s, v)
        \/ Idle(s) /\ ModView_on_timeout(s)
        \/ Idle(s) /\ WeaponDropdownView_on_timeout(s)
        \/ Idle(s) /\ ResourceDropdownView_on_timeout(s)
        \/ Idle(s) /\ ArcaneView_on_timeout(s)
    \/ ModDropdown_task
    \/ WeaponDropdown_task
    \/ WeaponComponentButton_task
    \/ ResourceDropdown_task
    \/ ResourcePaginateButton_task
    \/ ArcaneDropdown_task

SpecAsync == Init /\ [][NextAsync]_vars

---------------------------------------------------------------------------
(* Two cards at once: two invocations of the misc and arcane commands, each *)
(* with its own message, views and item record, and the events on either in *)
(* any order.                                                               *)

TwoSessions == {1, 2}

\* views ever attached to one of the two messages
TwoViews == 2

\* the records served to the two invocations: a resource with a second page of
\* drop locations and an arcane
TwoRecords == {r \in AsyncRecords : r.category \in {"Resources", "Arcanes"}}

TwoPayloads(resp) == Payloads(resp) \cap (TwoRecords \cup {NoRecord})

InitTwo ==
    /\ sessions = [s \in TwoSessions |-> NoSession]
    /\ lastOp = Op("none", 0, 0, "", "", <<>>, "", FALSE)
    /\ call = NoCall
    /\ tasks = {}

\* there is room for the view the callback attaches
Room(s) == Len(sessions[s].views) < TwoViews

NextTwo ==
    \E s \in TwoSessions :
        \/ \E resp \in Statuses : \E item \in TwoPayloads(resp) :
                miscellaneous(s, resp, item)
        \/ \E resp \in Statuses : \E item \in TwoPayloads(resp) :
                \E price \in PriceCases(resp, item, Categories) : arcane(s, resp, item, price)
        \/ \E v \in 1..TwoViews, value \in Labels :
                /\ value = "Drop Locations" => Room(s)
                /\ ResourceDropdown_callback(s, v, value)
        \/ \E v \in 1..TwoViews, action \in {"Next", "Previous"} :
                Room(s) /\ ResourcePaginateButton_callback(s, v, action)
        \/ \E v \in 1..TwoViews, value \in Labels :
                \E price \in (IF value = "Basic Info" THEN PriceOutcomes ELSE {"200"}) :
                    ArcaneDropdown_callback(s, v, value, price)
        \/ \E v \in 1..TwoViews : InteractionOnFinishedView(s, v)
        \/ ResourceDropdownView_on_timeout(s)
        \/ ArcaneView_on_timeout(s)

SpecTwo == InitTwo /\ [][NextTwo]_vars

---------------------------------------------------------------------------
(* fetch_component_price on the order list of a status-200 response.        *)
(*   order_type, status, platinum, ingame_name: order['order_type'],        *)
(*   order['user']['status'], order['platinum'], order['user']['ingame_name'] *)

\* longest order list of a response
MaxOrders == 4

\* the 3 of sell_orders[:3]
LowestShown == 3

OrderTypes == {"sell", "buy"}

UserStatuses == {"ingame", "online"}

Platinum == {10, 20, 30}

\* the orders a response can list: every type, status and price, and one order
\* whose type is capitalised
OrderKinds ==
    [order_type : OrderTypes, status : UserStatuses, platinum : Platinum]
    \cup {[order_type |-> "Sell", status |-> "ingame", platinum |-> 10]}

\* str.lower() and str.upper() on the strings of the model
Lower(str) ==
    CASE str = "Sell" -> "sell"
      [] str \in {"Total", "TOTAL"} -> "total"
      [] OTHER -> str

Upper(str) ==
    CASE str = "ingame" -> "INGAME"
      [] str = "online" -> "ONLINE"
      [] OTHER -> str

\* the order lists of n orders a response can carry
OrderLists(n) == [1..n -> OrderKinds]

\* the sellers are numbered in list order
Orders(list) ==
    [i \in 1..Len(list) |->
        [order_type |-> list[i].order_type, status |-> list[i].status,
         platinum |-> list[i].platinum, ingame_name |-> i]]

\* faulty variant: the orders are left in the order of the response
SortUnsorted(orders) == orders

\* list.sort(key=lambda x: x['platinum']): ascending and stable
RECURSIVE SortByPlatinum(_)
SortByPlatinum(orders) ==
    IF orders = <<>> THEN <<>>
    ELSE LET sorted == SortByPlatinum(SubSeq(orders, 1, Len(orders) - 1))
             last == orders[Len(orders)]
             before == SelectSeq(sorted, LAMBDA o : o.platinum <= last.platinum)
             after == SelectSeq(sorted, LAMBDA o : o.platinum > last.platinum)
         IN  before \o <<last>> \o after

\* sell_orders after the sort, cut to the lowest three
LowestPriceOrders(orders) ==
    LET sell_orders == SelectSeq(orders, LAMBDA order :
                            Lower(order.order_type) = "sell" /\ Lower(order.status) = "ingame")
    IN  PySlice(SortByPlatinum(sell_orders), 0, LowestShown)

\* the line of one order: price, seller and the seller's status in capitals
PriceLine(order) ==
    [platinum |-> order.platinum, ingame_name |-> order.ingame_name,
     status |-> Upper(order.status)]

\* what fetch_component_price returns for a status-200 response
LowestPrice(orders) ==
    LET lowest_price_orders == LowestPriceOrders(orders)
    IN  [i \in 1..Len(lowest_price_orders) |-> PriceLine(lowest_price_orders[i])]

InitPrices ==
    /\ sessions = [s \in SessionIds |-> NoSession]
    /\ lastOp = Op("none", 0, 0, "", "", <<>>, "", FALSE)
    /\ tasks = {}
    /\ \E n \in 0..MaxOrders : \E list \in OrderLists(n) :
          call = [NoCall EXCEPT !.fn = "fetch_component_price", !.arg = Orders(list)]

fetch_component_price_200 ==
    /\ call.fn = "fetch_component_price"
    /\ ~call.returned
    /\ call' = [call EXCEPT !.returned = TRUE,
                            !.result = [orders |-> LowestPriceOrders(call.arg),
                                        lines |-> LowestPrice(call.arg)]]
    /\ UNCHANGED <<sessions, lastOp, tasks>>

NextPrices == fetch_component_price_200

SpecPrices == InitPrices /\ [][NextPrices]_vars

---------------------------------------------------------------------------
(* get_damage_types_and_values on the damage table of a weapon or attack.   *)
(* A table is a dict: its entries, in order, each a damage type and a       *)
(* value.  Values are in thousandths.                                       *)

\* most entries of a damage table
MaxDamageTypes == 3

DamageTypes == {"impact", "slash", "total", "TOTAL"}

\* 0, 40, 12.346 and 0.004
DamageValues == {0, 40000, 12346, 4}

\* the sequences of n different elements of S
RECURSIVE Injections(_, _)
Injections(S, n) ==
    IF n = 0 THEN {<<>>}
    ELSE UNION {{Append(seq, x) : x \in S \ {seq[i] : i \in 1..Len(seq)}}
                    : seq \in Injections(S, n - 1)}

\* the damage tables of n entries
DamageTables(n) ==
    {[i \in 1..n |-> [damage_type |-> types[i], value |-> values[i]]]
        : types \in Injections(DamageTypes, n), values \in [1..n -> DamageValues]}

\* the weapon or attack: with a 'damage' table of n entries, or without the key
DamageObjects(n) ==
    {[has_damage |-> TRUE, damage |-> table] : table \in DamageTables(n)}
        \cup {[has_damage |-> FALSE, damage |-> <<>>]}

\* str.capitalize() on the damage types
Capitalize(str) ==
    CASE str = "impact" -> "Impact"
      [] str = "slash" -> "Slash"
      [] str \in {"total", "TOTAL"} -> "Total"
      [] OTHER -> str

\* round(value, 2); no value of the model lies halfway between two hundredths
Round2(value) == ((value + 5) \div 10) * 10

\* faulty variant: only the lower-case name is left out
DamageKeptCaseSensitive(damage_type, value) == value # 0 /\ damage_type # "total"

\* the condition of the dict comprehension
DamageKept(damage_type, value) == value # 0 /\ Lower(damage_type) # "total"

\* the lines of damage_string, in order
get_damage_types_and_values(damage) ==
    LET damage_object == IF damage.has_damage THEN damage.damage ELSE <<>>
        filtered_damage == SelectSeq(damage_object,
                               LAMBDA entry : DamageKept(entry.damage_type, entry.value))
    IN  [i \in 1..Len(filtered_damage) |->
            [emoji |-> Lower(filtered_damage[i].damage_type),
             label |-> Capitalize(filtered_damage[i].damage_type),
             value |-> Round2(filtered_damage[i].value)]]

InitDamage ==
    /\ sessions = [s \in SessionIds |-> NoSession]
    /\ lastOp = Op("none", 0, 0, "", "", <<>>, "", FALSE)
    /\ tasks = {}
    /\ \E n \in 0..MaxDamageTypes : \E damage \in DamageObjects(n) :
          call = [NoCall EXCEPT !.fn = "get_damage_types_and_values", !.arg = damage]

damage_breakdown ==
    /\ call.fn = "get_damage_types_and_values"
    /\ ~call.returned
    /\ call' = [call EXCEPT !.returned = TRUE,
                            !.result = get_damage_types_and_values(call.arg)]
    /\ UNCHANGED <<sessions, lastOp, tasks>>

NextDamage == damage_breakdown

SpecDamage == InitDamage /\ [][NextDamage]_vars

---------------------------------------------------------------------------
(* Properties                                                               *)

CommandOps == {"weapon", "mod", "misc", "arcane"}

CallbackOps ==
    {"ModDropdown.callback", "WeaponDropdown.callback", "WeaponComponentButton.callback",
     "ResourceDropdown.callback", "ResourcePaginateButton.callback",
     "ArcaneDropdown.callback"}

HasCard(s) == sessions[s].views # <<>>

ShownView(s) == sessions[s].views[sessions[s].shown]

\* some view of the session has timed out
Expired(s) == \E v \in 1..Len(sessions[s].views) : sessions[s].views[v].finished

\* the messages a handler got to the user: the calls that returned, the defer aside
UserMessages(op) == SelectSeq(op.out, LAMBDA c : c.ok /\ c.api # "response.defer")

\* the handler answered the interaction with a refusal
Rejected(op) == \E i \in 1..Len(op.out) : op.out[i].ok /\ op.out[i].what = "rejected"

\* C1: once a view of a session has timed out, every later select or button
\* event on the session's message is rejected (neither processed nor left
\* without an answer), the page shown never changes again and the controls the
\* message shows stay disabled.
C1_ExpireIsTerminal ==
    [][\A s \in SessionIds :
          Expired(s) =>
              /\ sessions'[s].embed = sessions[s].embed
              /\ sessions'[s].views[sessions'[s].shown].disabled
              /\ (lastOp'.sid = s /\ lastOp'.op \in CallbackOps \cup {"ignored"})
                    => Rejected(lastOp')]_vars

\* C2: every view whose timeout can elapse has a bound message, and a timeout
\* leaves the controls the message shows disabled, without raising.
C2_ExpireDisablesControls ==
    /\ \A s \in SessionIds : \A v \in 1..Len(sessions[s].views) :
          ~sessions[s].views[v].finished => sessions[s].views[v].bound
    /\ lastOp.op = "on_timeout" =>
          /\ lastOp.raised = ""
          /\ ShownView(lastOp.sid).disabled

\* C3: every control set built for a misc session with n drop locations at
\* page p offers Next iff p * 25 < n and Previous iff p > 1, so the page a
\* button leads to is never out of range.
C3_ButtonsOfferedInRange ==
    \A s \in SessionIds : \A v \in 1..Len(sessions[s].views) :
        LET view == sessions[s].views[v]
            p == view.current_page
            n == sessions[s].item.nDrops
        IN  view.cls = "ResourceDropdownView" =>
              /\ ("Next" \in view.buttons) <=> (p * 25 < n)
              /\ ("Previous" \in view.buttons) <=> (p > 1)
              /\ "Next" \in view.buttons => p * 25 + 1 <= n
              /\ "Previous" \in view.buttons => p - 1 >= 1

\* the last page of a long list offers only Previous, its first page only Next
C3_Witness ==
    \E s \in SessionIds : \E v, w \in 1..Len(sessions[s].views) :
        /\ sessions[s].item.nDrops = 60
        /\ sessions[s].views[v].current_page = 3
        /\ sessions[s].views[v].buttons = {"Previous"}
        /\ sessions[s].views[w].current_page = 1
        /\ sessions[s].views[w].buttons = {"Next"}

\* C4: the message never shows a Next or Previous button while the page
\* shown is BasicInfo.
C4_NoPaginateOnBasicInfo ==
    \A s \in SessionIds :
        (HasCard(s) /\ sessions[s].embed.kind = "BasicInfo")
            => ShownView(s).buttons \cap {"Next", "Previous"} = {}

\* C5: the drop-location page p of a record with n drop locations lists
\* exactly the entries at positions (p-1)*25+1 .. min(p*25, n), in order; the
\* pages together list every entry once.
C5_PageListsItsSlice ==
    \A s \in SessionIds :
        sessions[s].embed.kind = "ResourceDropLocations" =>
            LET p == sessions[s].embed.page
                n == sessions[s].item.nDrops
                first == (p - 1) * 25 + 1
                last == Min(p * 25, n)
                pages == (n + 24) \div 25
                positions == UNION {{<<q, i>> : i \in 1..Len(DropLocationsSlice(sessions[s].item, q))}
                                        : q \in 1..pages}
            IN  /\ Len(sessions[s].embed.entries) = (IF last >= first THEN last - first + 1 ELSE 0)
                /\ \A i \in 1..Len(sessions[s].embed.entries) :
                      sessions[s].embed.entries[i] = first + i - 1
                /\ Cardinality(positions) = n
                /\ {DropLocationsSlice(sessions[s].item, pos[1])[pos[2]] : pos \in positions}
                      = 1..n

\* page 3 of 60 drop locations lists the entries 51 to 60
C5_Witness ==
    \E s \in SessionIds :
        /\ sessions[s].embed.kind = "ResourceDropLocations"
        /\ sessions[s].embed.page = 3
        /\ sessions[s].item.nDrops = 60
        /\ Len(sessions[s].embed.entries) = 10
        /\ sessions[s].embed.entries[1] = 51
        /\ sessions[s].embed.entries[10] = 60

\* C6: selecting "Drop Locations" always shows page 1 of the drop locations,
\* whatever page the view the selection was made on is at.
C6_SelectResetsPage ==
    (lastOp.op = "ResourceDropdown.callback" /\ lastOp.arg = "Drop Locations") =>
        /\ sessions[lastOp.sid].embed.kind = "ResourceDropLocations"
        /\ sessions[lastOp.sid].embed.page = 1
        /\ ShownView(lastOp.sid).current_page = 1

\* "Drop Locations" selected on the view of a later page, while it was shown
C6_Witness ==
    /\ lastOp.op = "ResourceDropdown.callback"
    /\ lastOp.arg = "Drop Locations"
    /\ ~lastOp.stale
    /\ sessions[lastOp.sid].views[lastOp.view].current_page > 1
    /\ sessions[lastOp.sid].embed.page = 1

\* the view kinds each family's own command and dropdown lead to
AllowedKinds(category) ==
    CASE category \in WEAPON_CATEGORY ->
            {"BasicInfo", "DetailedAttacks", "Components", "ComponentDropLocations"}
      [] category \in {"Mods", "Arcanes"} -> {"BasicInfo", "RankStats"}
      [] OTHER -> {"BasicInfo", "ResourceDropLocations"}

\* C7: the view kind a session shows is always one of the kinds allowed for
\* the family of the session's item record.
C7_ViewKindValidForFamily ==
    \A s \in SessionIds :
        HasCard(s) => sessions[s].embed.kind \in AllowedKinds(sessions[s].item.category)

\* the categories each command is for
CommandCategories(cmd) ==
    CASE cmd = "weapon" -> WEAPON_CATEGORY
      [] cmd = "mod" -> {"Mods"}
      [] cmd = "arcane" -> {"Arcanes"}
      [] OTHER -> Categories \ (WEAPON_CATEGORY \cup {"Mods", "Arcanes"})

\* C8: a command given a record of another family answers with a
\* wrong-family notice and sends no card.
C8_WrongFamilyNotice ==
    (/\ lastOp.op \in CommandOps
     /\ lastOp.status = "200"
     /\ sessions[lastOp.sid].item.category \notin CommandCategories(lastOp.op))
        => /\ ~HasCard(lastOp.sid)
           /\ \E i \in 1..Len(lastOp.out) :
                 lastOp.out[i].ok /\ lastOp.out[i].what = "wrong_family"

\* C9: a 404 from the provider gives the user exactly one message, the
\* ephemeral not-found notice, and no card.
C9_NotFoundNotice ==
    (lastOp.op \in CommandOps /\ lastOp.status = "404") =>
        /\ UserMessages(lastOp) = <<Call("followup.send", "not_found", TRUE, TRUE)>>
        /\ lastOp.raised = ""
        /\ ~HasCard(lastOp.sid)
        /\ sessions[lastOp.sid].timers = <<>>

\* the arcane command answered a 404
C9_Witness ==
    /\ lastOp.op = "arcane"
    /\ lastOp.status = "404"
    /\ Len(UserMessages(lastOp)) = 1

\* C10: every command and every select or button callback gets a message to
\* the user and lets no exception escape, whatever the provider returns.
C10_FailuresReachTheUser ==
    lastOp.op \in CommandOps \cup CallbackOps =>
        /\ lastOp.raised = ""
        /\ UserMessages(lastOp) # <<>>

\* C11: selecting "Components" makes one price lookup per component and the
\* message is updated once all of them are done; a lookup that fails (a status
\* other than 200, or a raised error) costs only its own component its prices:
\* the render completes, the message shows the Components page, and every
\* block that lists prices lists the outcome of its own lookup.
C11_LookupFailureDegradesOneEntry ==
    (lastOp.op = "WeaponDropdown.callback" /\ lastOp.arg = "Components") =>
        LET item == sessions[lastOp.sid].item
            embed == sessions[lastOp.sid].embed
        IN  /\ Len(lastOp.prices) = Len(item.components)
            /\ lastOp.raised = ""
            /\ lastOp.out = <<Call("response.edit_message", "Components", FALSE, TRUE)>>
            /\ Len(embed.blocks) = Len(item.components)
            /\ \A i \in 1..Len(embed.blocks) :
                  "Prices" \in embed.blocks[i].lines =>
                      embed.blocks[i].prices =
                          (CASE lastOp.prices[i] = "200" -> <<"lowest prices">>
                             [] lastOp.prices[i] = "404" -> <<"No prices found">>
                             [] OTHER -> <<"Failed to fetch prices">>)

\* the orders of the response that are sell orders of a seller who is in game
Eligible(orders) ==
    {i \in 1..Len(orders) :
        Lower(orders[i].order_type) = "sell" /\ Lower(orders[i].status) = "ingame"}

\* C12: for every order list of a status-200 response the price lookup
\* returns at most 3 orders, each a sell order of the response whose seller is
\* in game, in ascending order of platinum, one line per order, and no
\* eligible order left out is cheaper than one returned.
C12_LowestThreeSellOrders ==
    (call.fn = "fetch_component_price" /\ call.returned) =>
        LET orders == call.arg
            lowest == call.result.orders
            sellers == {lowest[i].ingame_name : i \in 1..Len(lowest)}
        IN  /\ Len(lowest) <= 3
            /\ Cardinality(sellers) = Len(lowest)
            /\ sellers \subseteq Eligible(orders)
            /\ \A i \in 1..Len(lowest) : lowest[i] = orders[lowest[i].ingame_name]
            /\ \A i, j \in 1..Len(lowest) : i < j => lowest[i].platinum <= lowest[j].platinum
            /\ \A e \in Eligible(orders) \ sellers : \A i \in 1..Len(lowest) :
                  orders[e].platinum >= lowest[i].platinum
            /\ Len(call.result.lines) = Len(lowest)
            /\ \A i \in 1..Len(lowest) :
                  /\ call.result.lines[i].platinum = lowest[i].platinum
                  /\ call.result.lines[i].ingame_name = lowest[i].ingame_name

\* four eligible orders, the cheapest last: the three cheapest are returned in
\* ascending order, the later of the two dearest is left out
C12_Witness ==
    /\ call.fn = "fetch_component_price"
    /\ call.returned
    /\ Eligible(call.arg) = {1, 2, 3, 4}
    /\ call.arg[1].platinum = 30
    /\ call.arg[2].platinum = 20
    /\ call.arg[3].platinum = 30
    /\ call.arg[4].platinum = 10
    /\ call.arg[4].order_type = "Sell"
    /\ Len(call.result.orders) = 3
    /\ call.result.orders[1].ingame_name = 4
    /\ call.result.orders[2].ingame_name = 2
    /\ call.result.orders[3].ingame_name = 1

\* C13: the events of one session are handled one after the other: at no time
\* are two callbacks of the same session in progress.
C13_OneCallbackPerSession ==
    \A s \in SessionIds : Cardinality(TasksOf(s)) <= 1

\* C14: a command, select, button or timeout event of one session leaves the
\* item record, the views, the page shown and the controls of every other
\* session as they were, in whatever order the events of the sessions come.
C14_SessionsIndependent ==
    [][\A s \in DOMAIN sessions :
          s # lastOp'.sid => sessions'[s] = sessions[s]]_vars

\* both cards show the same resource; the second was paged on to page 2 while
\* the first, already timed out, still shows page 1
C14_Witness ==
    /\ DOMAIN sessions = TwoSessions
    /\ lastOp.sid = 2
    /\ lastOp.op = "ResourcePaginateButton.callback"
    /\ sessions[1].item = sessions[2].item
    /\ sessions[1].embed.kind = "ResourceDropLocations"
    /\ sessions[1].embed.page = 1
    /\ sessions[1].views[sessions[1].shown].disabled
    /\ sessions[2].embed.page = 2

DropdownOps ==
    {"ModDropdown.callback", "WeaponDropdown.callback", "ResourceDropdown.callback",
     "ArcaneDropdown.callback"}

\* C15: selecting any option a dropdown offers replaces the content of the
\* card in place: a dropdown callback that completes has edited the message,
\* and none sends a further message.
C15_SelectEditsInPlace ==
    lastOp.op \in DropdownOps =>
        /\ \A i \in 1..Len(lastOp.out) : lastOp.out[i].api # "response.send_message"
        /\ lastOp.raised = "" =>
              \E i \in 1..Len(lastOp.out) : lastOp.out[i].api = "response.edit_message"

\* the handler got to call a create_*_page function
Rendering(op) ==
    \/ op.op \in CommandOps /\ Renders(op.op, op.status, sessions[op.sid].item)
    \/ /\ op.op \in CallbackOps
       /\ op.arg \notin {"Riven Info", "Incarnon Form"}
       /\ ~(op.op = "ArcaneDropdown.callback" /\ op.arg = "Drop Locations")

\* the handler put the page it rendered on the card
ShowedPage(op) ==
    \E i \in 1..Len(op.out) :
        /\ op.out[i].ok
        /\ \/ op.out[i].api = "response.edit_message"
           \/ op.out[i].api = "followup.send" /\ op.out[i].what = "card"

\* C16: rendering never fails on a record that lacks optional fields
\* (description, wiki URL, introduction data, product category, level-stat
\* table, a component's location text): whenever a handler renders a page and
\* its price lookups raise nothing, the renderer returns the page and the
\* handler shows it.
C16_RendererToleratesMissingFields ==
    (Rendering(lastOp) /\ \A i \in 1..Len(lastOp.prices) : lastOp.prices[i] # "ClientError")
        => /\ lastOp.raised = ""
           /\ ShowedPage(lastOp)

\* C17: on the Components page every component has one block; the block lists
\* the count, lists the drop location exactly when the component's description
\* has the "Location:" marker, and keeps its ducat and price lines whether or
\* not it lists a drop location.
C17_ComponentBlockLines ==
    \A s \in DOMAIN sessions :
        sessions[s].embed.kind = "Components" =>
            LET components == sessions[s].item.components
                blocks == sessions[s].embed.blocks
            IN  /\ Len(blocks) = Len(components)
                /\ \A i \in 1..Len(blocks) :
                      /\ blocks[i].name = components[i].name
                      /\ "Count" \in blocks[i].lines
                      /\ ("Drops At" \in blocks[i].lines) <=> components[i].location
                      /\ {"Ducats", "Prices"} \subseteq blocks[i].lines

\* C18: the damage breakdown has one line for each damage type of the table
\* whose value is not 0 and whose name is not "total" in any casing, and no
\* other line; the lines come in the order of the table.
C18_DamageBreakdownLines ==
    (call.fn = "get_damage_types_and_values" /\ call.returned) =>
        LET table == call.arg.damage
            lines == call.result
            listed == {i \in 1..Len(table) :
                          table[i].value # 0 /\ table[i].damage_type \notin {"total", "TOTAL"}}
            LineOf(i) == Cardinality({j \in listed : j <= i})
        IN  /\ Len(lines) = Cardinality(listed)
            /\ \A i \in listed : lines[LineOf(i)].label = Capitalize(table[i].damage_type)
            /\ \A k \in 1..Len(lines) : lines[k].label # "Total"

\* {impact: 0, slash: 40, total: 40} gives the slash line alone
C18_Witness ==
    /\ call.fn = "get_damage_types_and_values"
    /\ call.returned
    /\ call.arg.damage = <<[damage_type |-> "impact", value |-> 0],
                           [damage_type |-> "slash", value |-> 40000],
                           [damage_type |-> "total", value |-> 40000]>>
    /\ call.result = <<[emoji |-> "slash", label |-> "Slash", value |-> 40000]>>

\* the orders requests the page a handler renders stands for: one per
\* component on the weapon Components page, one on the basic page of a mod or
\* an arcane, none on any other page
PriceRequests(op) ==
    CASE op.op = "WeaponDropdown.callback" /\ op.arg = "Components" ->
            Len(sessions[op.sid].item.components)
      [] op.op \in {"mod", "arcane"} /\ Renders(op.op, op.status, sessions[op.sid].item) -> 1
      [] op.op \in {"ModDropdown.callback", "ArcaneDropdown.callback"}
            /\ op.arg = "Basic Info" -> 1
      [] OTHER -> 0

PageOf(embed) ==
    <<embed.kind, embed.page,
      IF embed.kind = "ComponentDropLocations" THEN embed.lines ELSE <<>>>>

\* the step rendered again the page the card of s already showed
RendersAgain(s) ==
    /\ HasCard(s)
    /\ lastOp'.sid = s
    /\ ShowedPage(lastOp')
    /\ PageOf(sessions'[s].embed) = PageOf(sessions[s].embed)

Droppable(item) ==
    {item.components[i].name : i \in {j \in 1..Len(item.components) :
                                        item.components[j].drops = "some"}}

\* C21: the view attached by selecting "Components" has a button for exactly
\* the components with a non-empty drop list, and no view of a weapon card has
\* a button for a component whose drop list is empty or absent.
C21_ButtonsForDroppableOnly ==
    /\ \A s \in DOMAIN sessions : \A v \in 1..Len(sessions[s].views) :
          sessions[s].views[v].cls = "WeaponDropdownView" =>
              sessions[s].views[v].buttons \subseteq Droppable(sessions[s].item)
    /\ (lastOp.op = "WeaponDropdown.callback" /\ lastOp.arg = "Components"
            /\ lastOp.raised = "") =>
          ShownView(lastOp.sid).buttons = Droppable(sessions[lastOp.sid].item)


\* the number of drop-location pages of a record: at least one
LastPage(item) == IF item.nDrops = 0 THEN 1 ELSE (item.nDrops + PageSize - 1) \div PageSize

\* C22: whatever selections of Drop Locations and clicks on Next and Previous
\* have been dispatched, also two clicks on one button whose callbacks overlap,
\* the page of drop locations rendered, and the page of every control set
\* built, is between 1 and max(1, ceil(n / 25)).
C22_PageInRange ==
    \A s \in SessionIds :
        /\ sessions[s].embed.kind = "ResourceDropLocations" =>
                sessions[s].embed.page \in 1..LastPage(sessions[s].item)
        /\ \A v \in 1..Len(sessions[s].views) :
                sessions[s].views[v].cls = "ResourceDropdownView" =>
                    sessions[s].views[v].current_page \in 1..LastPage(sessions[s].item)

\* Next was clicked twice on the first page before the message was updated:
\* the callback of one click has shown the last page, the other is in progress
C22_Witness ==
    \E s \in SessionIds : \E t \in tasks :
        /\ t.sid = s /\ t.again /\ t.arg = "Next"
        /\ lastOp.op = "ResourcePaginateButton.callback"
        /\ lastOp.view = t.view /\ lastOp.arg = "Next" /\ lastOp.raised = ""
        /\ sessions[s].views[t.view].current_page = 1
        /\ sessions[s].embed.kind = "ResourceDropLocations"
        /\ sessions[s].embed.page = 2
        /\ sessions[s].embed.page = LastPage(sessions[s].item)


\* C23: the controls the message shows are disabled only by the timeout of the
\* view they belong to: the timeout of a view the message no longer shows edits
\* nothing and leaves the controls of the view shown in place.
C23_SupersededExpiryEditsNothing ==
    (lastOp.op = "on_timeout" /\ lastOp.stale) =>
        /\ lastOp.out = <<>>
        /\ sessions[lastOp.sid].shown # lastOp.view


\* C24: every command defers the interaction once, as its first call, and
\* every call it makes afterwards goes through the follow-up channel: no run
\* of a command attempts a second initial response.
C24_DeferThenFollowupOnly ==
    lastOp.op \in CommandOps =>
        /\ lastOp.out # <<>>
        /\ Head(lastOp.out).api = "response.defer"
        /\ \A i \in 2..Len(lastOp.out) : lastOp.out[i].api = "followup.send"


\* the last step rendered the basic-information page of a resource card
RenderedResourceInfo ==
    \/ lastOp.op = "misc" /\ lastOp.status = "200"
    \/ lastOp.op = "ResourceDropdown.callback" /\ lastOp.arg = "Basic Info"

\* C25: rendering the basic-information page of a resource never fails on a
\* component whose description has no "Location:", and the Location line of
\* each component block comes from that component's own description, never
\* from another component's.
C25_LocationFromOwnDescription ==
    RenderedResourceInfo =>
        /\ lastOp.raised = ""
        /\ LET components == sessions[lastOp.sid].item.components
               blocks == sessions[lastOp.sid].embed.blocks
           IN  \A i \in 1..Len(blocks) : \A j \in 1..Len(components) :
                   blocks[i].location = components[j].name => j = i

=============================================================================
